---- MODULE Spec2Model ----
(***************************************************************************)
(* Payment routing, fee calculation, checkout creation and webhook         *)
(* reconciliation of bleu-smart-flow (supabase edge functions              *)
(* create-checkout, stripe-webhook and generate-receipt).                  *)
(*                                                                         *)
(* Money: the jobs.price column is DECIMAL(10,2) in dollars; the model     *)
(* keeps a price in mills (1/1000 dollar) so that the rounding done by the *)
(* column and by Math.round(price * 100) is a real computation.  Amounts   *)
(* the code keeps in cents are integers in cents.                          *)
(***************************************************************************)
EXTENDS Integers, Sequences, FiniteSets, TLC

VARIABLES jobs, profiles, receipts, sessions, req, hook, amount, feeOut,
          accounts, conn

vars == <<jobs, profiles, receipts, sessions, req, hook, amount, feeOut,
          accounts, conn>>

\* ---------------------------------------------------------------- bounds
\* Largest cent amount the fee calculator is exercised on (covers all tiers).
MaxAmount == 251000
\* Concurrent checkout requests when checkout initiation runs alone.
MaxReqs == 2
\* Checkout requests and webhook deliveries when the whole payment flow runs.
MaxPaidReqs == 1
MaxHooks == 2
\* Calls of the connection functions by one user.
MaxCalls == 2

\* ------------------------------------------------------------- universes
JobIds == {"j1"}
Users == {"u1", "u2"}
Reqs == 1..MaxReqs
PaidReqs == 1..MaxPaidReqs
Hooks == 1..MaxHooks
Calls == 1..MaxCalls

NULL == "null"
NotComputed == 0 - 1
PLATFORM_STRIPE_ACCOUNT_ID == "acct_platform"

\* Prices typed into the job form, in mills: 0.001, 0.18, 0.185 and 49.99
\* dollars.
FormPrices == {1, 180, 185, 49990}

\* ------------------------------------------------------- pure functions
\* Math.round on a non-negative rational n/d: nearest integer, half up.
MathRound(n, d) == (2 * n + d) \div (2 * d)

\* Variant: the fixed component taken as 300 (dollars-and-cents mix-up).
calculatePlatformFee_Fixed300(amountInCents) ==
  IF amountInCents < 100 * 100 THEN MathRound(amountInCents * 49, 1000) + 300
  ELSE IF amountInCents < 500 * 100 THEN MathRound(amountInCents * 39, 1000) + 300
  ELSE IF amountInCents < 1000 * 100 THEN MathRound(amountInCents * 29, 1000) + 300
  ELSE IF amountInCents < 2500 * 100 THEN MathRound(amountInCents * 19, 1000) + 300
  ELSE MathRound(amountInCents * 15, 1000)

\* Variant: tier thresholds compared with <= instead of <.
calculatePlatformFee_InclusiveTiers(amountInCents) ==
  IF amountInCents <= 100 * 100 THEN MathRound(amountInCents * 49, 1000) + 30
  ELSE IF amountInCents <= 500 * 100 THEN MathRound(amountInCents * 39, 1000) + 30
  ELSE IF amountInCents <= 1000 * 100 THEN MathRound(amountInCents * 29, 1000) + 30
  ELSE IF amountInCents <= 2500 * 100 THEN MathRound(amountInCents * 19, 1000) + 30
  ELSE MathRound(amountInCents * 15, 1000)

\* Variant: the percentage part truncated instead of rounded.
calculatePlatformFee_Truncates(amountInCents) ==
  IF amountInCents < 100 * 100 THEN (amountInCents * 49) \div 1000 + 30
  ELSE IF amountInCents < 500 * 100 THEN (amountInCents * 39) \div 1000 + 30
  ELSE IF amountInCents < 1000 * 100 THEN (amountInCents * 29) \div 1000 + 30
  ELSE IF amountInCents < 2500 * 100 THEN (amountInCents * 19) \div 1000 + 30
  ELSE (amountInCents * 15) \div 1000

calculatePlatformFee(amountInCents) ==
  IF amountInCents < 100 * 100 THEN MathRound(amountInCents * 49, 1000) + 30
  ELSE IF amountInCents < 500 * 100 THEN MathRound(amountInCents * 39, 1000) + 30
  ELSE IF amountInCents < 1000 * 100 THEN MathRound(amountInCents * 29, 1000) + 30
  ELSE IF amountInCents < 2500 * 100 THEN MathRound(amountInCents * 19, 1000) + 30
  ELSE MathRound(amountInCents * 15, 1000)

\* Variant: a price column without a scale keeps the value as typed.
StoreDecimal2_NoScale(mills) == mills

\* DECIMAL(10,2): a value written to jobs.price is rounded to two decimals
\* (half away from zero); the result is still expressed in mills.
StoreDecimal2(mills) == ((mills + 5) \div 10) * 10

\* Math.round(parseFloat(job.price) * 100): dollars to integer cents.
basePriceInCents(priceMills) == MathRound(priceMills, 10)

\* Number.prototype.toFixed(2) of a dollar amount given in mills, as cents.
toFixed2(mills) ==
  IF mills >= 0 THEN (mills + 5) \div 10 ELSE 0 - ((5 - mills) \div 10)

\* generateReceiptHTML: the (base, fee, total) printed in the breakdown.
generateReceiptHTML(jobPriceMills, amountPaid) ==
  LET baseAmount == jobPriceMills
      totalAmount == amountPaid * 10
      platformFee == totalAmount - baseAmount
  IN [base |-> toFixed2(baseAmount),
      fee |-> toFixed2(platformFee),
      total |-> toFixed2(totalAmount)]

\* ------------------------------------------------------------ constants
NoJob == [exists |-> FALSE, price |-> 0, company_id |-> NULL, status |-> NULL,
          paid_at |-> 0, receipt_id |-> 0, payment_url |-> 0]

NoResp == [status |-> 0, success |-> FALSE, error |-> "none", warning |-> FALSE,
           url |-> 0, pricing |-> FALSE]

IdleReq == [pc |-> "idle", jobId |-> NULL, base |-> 0, fee |-> 0, total |-> 0,
            useStripeConnect |-> FALSE, connectedStripeAccountId |-> NULL,
            chargesEnabled |-> FALSE, acctStatus |-> "none",
            acctQueries |-> 0, creates |-> 0, sessionId |-> 0,
            stripeError |-> "none", updateError |-> FALSE,
            resp |-> NoResp]

IdleHook == [pc |-> "idle", sig |-> "none", type |-> "none", sessionId |-> 0,
             jobId |-> NULL, amountPaid |-> 0, jobPrice |-> 0, receiptId |-> 0,
             receiptStatus |-> 0, status |-> 0, received |-> FALSE]

\* A call of stripe-connect or create-stripe-onboarding before it starts:
\* profileAccountId is profile.stripe_account_id as read, accountId the
\* handler's accountId / account.id, created and links count the
\* accounts.create and accountLinks.create calls that succeeded.
IdleCall == [pc |-> "idle", fn |-> "none", profileAccountId |-> NULL,
             accountId |-> NULL, retrieved |-> FALSE,
             details_submitted |-> FALSE, charges_enabled |-> FALSE,
             created |-> 0, links |-> 0, status |-> 0, success |-> FALSE,
             already_connected |-> FALSE]

\* Profile states the connection manager can leave behind; the second of
\* the tenant's users is a teammate sharing company c1.
OwnerProfiles ==
  { [company_id |-> "c1", stripe_account_id |-> NULL, stripe_connected |-> FALSE],
    [company_id |-> "c1", stripe_account_id |-> "acct_A", stripe_connected |-> FALSE],
    [company_id |-> "c1", stripe_account_id |-> "acct_A", stripe_connected |-> TRUE],
    [company_id |-> "c1", stripe_account_id |-> PLATFORM_STRIPE_ACCOUNT_ID,
     stripe_connected |-> TRUE] }

TeammateProfiles ==
  { [company_id |-> "c1", stripe_account_id |-> NULL, stripe_connected |-> FALSE],
    [company_id |-> "c1", stripe_account_id |-> "acct_B", stripe_connected |-> TRUE] }

ProfileStates ==
  {p \in [Users -> OwnerProfiles \cup TeammateProfiles] :
     /\ p["u1"] \in OwnerProfiles
     /\ p["u2"] \in TeammateProfiles
     /\ p["u2"].stripe_connected => p["u1"].stripe_account_id = "acct_A"}

Init ==
  /\ jobs = [j \in JobIds |-> NoJob]
  /\ profiles \in ProfileStates
  /\ receipts = <<>>
  /\ sessions = <<>>
  /\ req = [r \in Reqs |-> IdleReq]
  /\ hook = [w \in Hooks |-> IdleHook]
  /\ amount = 0
  /\ feeOut = NotComputed
  /\ accounts = <<>>
  /\ conn = [c \in Calls |-> IdleCall]

\* ------------------------------------------------------------ job form
\* CreateJobDialog.handleSubmit: a job is inserted with the parsed form price
\* and the creator's company under an id never used before; the form
\* rejects a price that is not > 0.
CreateJob(j, u, formPrice) ==
  /\ jobs[j] = NoJob
  /\ formPrice > 0
  /\ profiles[u].company_id # NULL
  /\ jobs' = [jobs EXCEPT ![j] =
                [exists |-> TRUE, price |-> StoreDecimal2(formPrice),
                 company_id |-> profiles[u].company_id, status |-> "pending",
                 paid_at |-> 0, receipt_id |-> 0, payment_url |-> 0]]
  /\ UNCHANGED <<profiles, receipts, sessions, req, hook, amount, feeOut, accounts, conn>>

\* ---------------------------------------------- direct edits by the tenant
\* Row removed from public.jobs: its id is not used again.
DeletedJob == [NoJob EXCEPT !.status = "deleted"]

\* Policy "Users can update jobs for their company": a user of the job's
\* company writes another price onto the row.
UpdateJobPrice(j, u, newPrice) ==
  /\ jobs[j].exists
  /\ profiles[u].company_id = jobs[j].company_id
  /\ StoreDecimal2(newPrice) # jobs[j].price
  /\ jobs' = [jobs EXCEPT ![j].price = StoreDecimal2(newPrice)]
  /\ UNCHANGED <<profiles, receipts, sessions, req, hook, amount, feeOut,
                 accounts, conn>>

\* Policy "Users can delete jobs for their company": the row is removed and
\* receipts_job_id_fkey (ON DELETE CASCADE) removes its receipts.
DeleteJob(j, u) ==
  /\ jobs[j].exists
  /\ profiles[u].company_id = jobs[j].company_id
  /\ jobs' = [jobs EXCEPT ![j] = DeletedJob]
  /\ receipts' = SelectSeq(receipts, LAMBDA row : row.job_id # j)
  /\ UNCHANGED <<profiles, sessions, req, hook, amount, feeOut, accounts, conn>>

\* ------------------------------------------------------- create-checkout
\* Variant: the minimum mistyped as 5 cents.
BelowMinimum_Typo(totalPriceInCents) == totalPriceInCents < 5

\* Processor minimum: totalPriceInCents < 50 is rejected.
BelowMinimum(totalPriceInCents) == totalPriceInCents < 50

\* Variant: failures answered with status 500, as the other functions do.
Fail_Status500(r, msg) ==
  [req[r] EXCEPT !.pc = "done",
                 !.resp = [NoResp EXCEPT !.status = 500, !.error = msg]]

\* A failure response of create-checkout: status 200, success false, error.
Fail(r, msg) ==
  [req[r] EXCEPT !.pc = "done",
                 !.resp = [NoResp EXCEPT !.status = 200, !.error = msg]]

\* Rows returned by .from('profiles').eq('company_id', c).eq('stripe_connected', true)
ConnectedProfiles(c) ==
  {u \in Users : profiles[u].company_id = c /\ profiles[u].stripe_connected}

\* Variant: the cached stripe_connected flag is trusted, whatever the
\* processor answers.
Route_TrustsCachedFlag(r0, company, dbOk, live) ==
  LET rows == ConnectedProfiles(company)
      profileError == ~dbOk \/ Cardinality(rows) # 1
      acct == profiles[CHOOSE u \in rows : TRUE].stripe_account_id
  IN IF company = NULL \/ profileError \/ acct = NULL
     THEN r0
     ELSE IF acct = PLATFORM_STRIPE_ACCOUNT_ID
     THEN [r0 EXCEPT !.connectedStripeAccountId = acct]
     ELSE [r0 EXCEPT !.connectedStripeAccountId = acct,
                     !.acctQueries = @ + 1,
                     !.acctStatus = live,
                     !.chargesEnabled = (live = "enabled"),
                     !.useStripeConnect = TRUE]

\* Variant: only an explicit charges_enabled = false keeps the platform; a
\* failed accounts.retrieve leaves connect routing on.
Route_ErrorKeepsConnect(r0, company, dbOk, live) ==
  LET rows == ConnectedProfiles(company)
      profileError == ~dbOk \/ Cardinality(rows) # 1
      acct == profiles[CHOOSE u \in rows : TRUE].stripe_account_id
  IN IF company = NULL \/ profileError \/ acct = NULL
     THEN r0
     ELSE IF acct = PLATFORM_STRIPE_ACCOUNT_ID
     THEN [r0 EXCEPT !.connectedStripeAccountId = acct]
     ELSE [r0 EXCEPT !.connectedStripeAccountId = acct,
                     !.acctQueries = @ + 1,
                     !.acctStatus = live,
                     !.chargesEnabled = (live = "enabled"),
                     !.useStripeConnect = (live # "disabled")]

\* Variant: no comparison with the platform's own account id; every stored
\* account id is handled as a connected account.
Route_NoPlatformGuard(r0, company, dbOk, live) ==
  LET rows == ConnectedProfiles(company)
      profileError == ~dbOk \/ Cardinality(rows) # 1
      acct == profiles[CHOOSE u \in rows : TRUE].stripe_account_id
  IN IF company = NULL \/ profileError \/ acct = NULL
     THEN r0
     ELSE [r0 EXCEPT !.connectedStripeAccountId = acct,
                     !.acctQueries = @ + 1,
                     !.acctStatus = live,
                     !.chargesEnabled = (live = "enabled"),
                     !.useStripeConnect = (live \in {"enabled", "none"})]

\* Routing decision for a job of the given company: profile lookup with
\* .single(), platform-id guard and the live accounts.retrieve; live is the
\* processor's answer when it is asked ("none" when it is not).
Route(r0, company, dbOk, live) ==
  LET rows == ConnectedProfiles(company)
      profileError == ~dbOk \/ Cardinality(rows) # 1
      companyProfile == profiles[CHOOSE u \in rows : TRUE]
      acct == companyProfile.stripe_account_id
  IN IF company = NULL \/ profileError \/ acct = NULL
     THEN r0
     ELSE IF acct = PLATFORM_STRIPE_ACCOUNT_ID
     THEN [r0 EXCEPT !.connectedStripeAccountId = acct]
     ELSE [r0 EXCEPT !.connectedStripeAccountId = acct,
                     !.acctQueries = @ + 1,
                     !.acctStatus = live,
                     !.chargesEnabled = (live = "enabled"),
                     !.useStripeConnect = (live = "enabled")]

\* Whether Route asks the processor for the account's status.
QueriesAccount(company, dbOk) ==
  LET rows == ConnectedProfiles(company)
  IN /\ company # NULL
     /\ dbOk
     /\ Cardinality(rows) = 1
     /\ profiles[CHOOSE u \in rows : TRUE].stripe_account_id
          \notin {NULL, PLATFORM_STRIPE_ACCOUNT_ID}

\* serve handler up to the routing decision: environment, body, job id, job
\* lookup, price handling, fee, total, minimum check, routing.
CheckoutStart(r, kind, j, jobOk, profOk, live) ==
  /\ req[r].pc = "idle"
  /\ IF kind = "no_key" THEN req' = [req EXCEPT ![r] = Fail(r, "config_missing")]
     ELSE IF kind = "bad_json" THEN req' = [req EXCEPT ![r] = Fail(r, "invalid_json")]
     ELSE IF kind = "no_job_id" THEN req' = [req EXCEPT ![r] = Fail(r, "job_id_required")]
     ELSE LET base == basePriceInCents(jobs[j].price)
              platformFee == calculatePlatformFee(base)
              totalPriceInCents == base + platformFee
              priced == [req[r] EXCEPT !.jobId = j, !.base = base,
                                       !.fee = platformFee,
                                       !.total = totalPriceInCents]
          IN IF ~jobOk \/ ~jobs[j].exists
             THEN req' = [req EXCEPT ![r] =
                            [Fail(r, "fetch_failed") EXCEPT !.jobId = j]]
             ELSE IF jobs[j].price <= 0
             THEN req' = [req EXCEPT ![r] =
                            [Fail(r, "invalid_price") EXCEPT !.jobId = j]]
             ELSE IF BelowMinimum(totalPriceInCents)
             THEN req' = [req EXCEPT ![r] =
                            [priced EXCEPT !.pc = "done",
                               !.resp = [NoResp EXCEPT !.status = 200,
                                                       !.error = "too_low"]]]
             ELSE /\ (live # "none") = QueriesAccount(jobs[j].company_id, profOk)
                  /\ req' = [req EXCEPT ![r] =
                               [Route(priced, jobs[j].company_id, profOk, live)
                                  EXCEPT !.pc = "create"]]
  /\ UNCHANGED <<jobs, profiles, receipts, sessions, hook, amount, feeOut, accounts, conn>>

\* Variant: the line item priced at the base amount, fee left out.
sessionConfig_BaseOnly(r) ==
  LET useConnect == req[r].useStripeConnect
      split == useConnect /\ req[r].fee > 0
  IN [id |-> Len(sessions) + 1,
      unit_amount |-> req[r].base,
      job_id |-> req[r].jobId,
      base_price |-> req[r].base,
      platform_fee |-> req[r].fee,
      routing_method |-> IF useConnect THEN "stripe_connect_updated_tiers"
                         ELSE "platform_only",
      has_split |-> split,
      application_fee_amount |-> IF split THEN req[r].fee ELSE 0,
      destination |-> IF split THEN req[r].connectedStripeAccountId ELSE NULL,
      stripeAccount |-> IF useConnect /\ req[r].connectedStripeAccountId # NULL
                        THEN req[r].connectedStripeAccountId ELSE NULL]

\* Variant: split instructions attached, but the call made without the
\* stripeAccount option.
sessionConfig_NoAccountContext(r) ==
  LET useConnect == req[r].useStripeConnect
      split == useConnect /\ req[r].fee > 0
  IN [id |-> Len(sessions) + 1,
      unit_amount |-> req[r].total,
      job_id |-> req[r].jobId,
      base_price |-> req[r].base,
      platform_fee |-> req[r].fee,
      routing_method |-> IF useConnect THEN "stripe_connect_updated_tiers"
                         ELSE "platform_only",
      has_split |-> split,
      application_fee_amount |-> IF split THEN req[r].fee ELSE 0,
      destination |-> IF split THEN req[r].connectedStripeAccountId ELSE NULL,
      stripeAccount |-> NULL]

\* The checkout-session specification sent to the processor.
sessionConfig(r) ==
  LET useConnect == req[r].useStripeConnect
      split == useConnect /\ req[r].fee > 0
  IN [id |-> Len(sessions) + 1,
      unit_amount |-> req[r].total,
      job_id |-> req[r].jobId,
      base_price |-> req[r].base,
      platform_fee |-> req[r].fee,
      routing_method |-> IF useConnect THEN "stripe_connect_updated_tiers"
                         ELSE "platform_only",
      has_split |-> split,
      application_fee_amount |-> IF split THEN req[r].fee ELSE 0,
      destination |-> IF split THEN req[r].connectedStripeAccountId ELSE NULL,
      stripeAccount |-> IF useConnect /\ req[r].connectedStripeAccountId # NULL
                        THEN req[r].connectedStripeAccountId ELSE NULL]

\* fallbackConfig = { ...sessionConfig } with payment_intent_data deleted,
\* created without the stripeAccount option.
fallbackConfig(r) ==
  [sessionConfig(r) EXCEPT !.has_split = FALSE, !.application_fee_amount = 0,
                           !.destination = NULL, !.stripeAccount = NULL]

\* Variant: the catch re-throws without trying the platform fallback.
CheckoutCreateSession_NoFallback(r, ok) ==
  /\ req[r].pc = "create"
  /\ IF ok
     THEN /\ sessions' = Append(sessions, sessionConfig(r))
          /\ req' = [req EXCEPT ![r].pc = "persist", ![r].creates = @ + 1,
                                ![r].sessionId = Len(sessions) + 1]
     ELSE LET stripeError == IF req[r].useStripeConnect
                             /\ req[r].connectedStripeAccountId # NULL
                             THEN "connect_call_error" ELSE "platform_call_error"
          IN /\ sessions' = sessions
             /\ req' = [req EXCEPT ![r] =
                          [Fail(r, stripeError) EXCEPT
                             !.creates = req[r].creates + 1,
                             !.stripeError = stripeError]]
  /\ UNCHANGED <<jobs, profiles, receipts, hook, amount, feeOut, accounts, conn>>

\* Variant: the catch retries whatever routing was selected.
CheckoutCreateSession_AlwaysRetries(r, ok) ==
  /\ req[r].pc = "create"
  /\ IF ok
     THEN /\ sessions' = Append(sessions, sessionConfig(r))
          /\ req' = [req EXCEPT ![r].pc = "persist", ![r].creates = @ + 1,
                                ![r].sessionId = Len(sessions) + 1]
     ELSE LET stripeError == IF req[r].useStripeConnect
                             /\ req[r].connectedStripeAccountId # NULL
                             THEN "connect_call_error" ELSE "platform_call_error"
          IN /\ sessions' = sessions
             /\ req' = [req EXCEPT ![r].pc = "fallback",
                                   ![r].creates = @ + 1,
                                   ![r].stripeError = stripeError]
  /\ UNCHANGED <<jobs, profiles, receipts, hook, amount, feeOut, accounts, conn>>

\* First stripe.checkout.sessions.create call and the catch that follows
\* it: the thrown stripeError is the connect call's or the platform call's;
\* under connect routing the handler goes on to the fallback, otherwise the
\* error is re-thrown to the outer catch.
CheckoutCreateSession(r, ok) ==
  /\ req[r].pc = "create"
  /\ IF ok
     THEN /\ sessions' = Append(sessions, sessionConfig(r))
          /\ req' = [req EXCEPT ![r].pc = "persist", ![r].creates = @ + 1,
                                ![r].sessionId = Len(sessions) + 1]
     ELSE LET stripeError == IF req[r].useStripeConnect
                             /\ req[r].connectedStripeAccountId # NULL
                             THEN "connect_call_error" ELSE "platform_call_error"
          IN /\ sessions' = sessions
             /\ IF req[r].useStripeConnect
                THEN req' = [req EXCEPT ![r].pc = "fallback",
                                       ![r].creates = @ + 1,
                                       ![r].stripeError = stripeError]
                ELSE req' = [req EXCEPT ![r] =
                               [Fail(r, stripeError) EXCEPT
                                  !.creates = req[r].creates + 1,
                                  !.stripeError = stripeError]]
  /\ UNCHANGED <<jobs, profiles, receipts, hook, amount, feeOut, accounts, conn>>

\* Variant: an updateError is thrown to the outer catch.
CheckoutPersist_FailsOnUpdateError(r, dbOk) ==
  /\ req[r].pc = "persist"
  /\ jobs' = IF dbOk
             THEN [jobs EXCEPT ![req[r].jobId].payment_url = req[r].sessionId]
             ELSE jobs
  /\ req' = [req EXCEPT ![r] =
               IF dbOk
               THEN [req[r] EXCEPT !.pc = "done",
                                   !.resp = [status |-> 200, success |-> TRUE,
                                             error |-> "none", warning |-> FALSE,
                                             url |-> req[r].sessionId,
                                             pricing |-> TRUE]]
               ELSE [Fail(r, "update_failed") EXCEPT !.updateError = TRUE]]
  /\ UNCHANGED <<profiles, receipts, sessions, hook, amount, feeOut, accounts, conn>>

\* Update of the job's payment_url (updateError is only logged) and the
\* success response with pricing_info and routing_info.
CheckoutPersist(r, dbOk) ==
  /\ req[r].pc = "persist"
  /\ jobs' = IF dbOk /\ jobs[req[r].jobId].exists
             THEN [jobs EXCEPT ![req[r].jobId].payment_url = req[r].sessionId]
             ELSE jobs
  /\ req' = [req EXCEPT ![r].pc = "done", ![r].updateError = ~dbOk,
                        ![r].resp = [status |-> 200, success |-> TRUE,
                                     error |-> "none", warning |-> FALSE,
                                     url |-> req[r].sessionId, pricing |-> TRUE]]
  /\ UNCHANGED <<profiles, receipts, sessions, hook, amount, feeOut, accounts, conn>>

\* Fallback in the stripeError catch: a platform-only session and the
\* warning response; a failure here reaches the outer catch.
CheckoutFallback(r, ok) ==
  /\ req[r].pc = "fallback"
  /\ IF ok
     THEN /\ sessions' = Append(sessions, fallbackConfig(r))
          /\ req' = [req EXCEPT ![r].pc = "done", ![r].creates = @ + 1,
                                ![r].sessionId = Len(sessions) + 1,
                                ![r].resp = [status |-> 200, success |-> TRUE,
                                             error |-> "none", warning |-> TRUE,
                                             url |-> Len(sessions) + 1,
                                             pricing |-> FALSE]]
     ELSE /\ sessions' = sessions
          /\ req' = [req EXCEPT ![r] =
                       [Fail(r, "fallback_call_error") EXCEPT
                          !.creates = req[r].creates + 1]]
  /\ UNCHANGED <<jobs, profiles, receipts, hook, amount, feeOut, accounts, conn>>

\* ------------------------------------------------------- stripe-webhook
Respond(w, code, ack) == [hook[w] EXCEPT !.pc = "done", !.status = code, !.received = ack]

\* new Date().toISOString() taken by delivery w; distinct deliveries read
\* distinct instants.
Now(w) == w

\* crypto.randomUUID() drawn while serving delivery w.
randomUUID(w) == w

\* Variant: the event type is not looked at; every verified event is
\* processed as a completed checkout.
WebhookReceive_AnyType(w, sig, type, s, j, dbOk) ==
  /\ hook[w].pc = "idle"
  /\ s \in 0..Len(sessions)
  /\ LET in == [hook[w] EXCEPT !.sig = sig, !.type = type, !.sessionId = s,
                               !.jobId = j]
     IN IF sig = "missing"
        THEN /\ type = "none" /\ s = 0
             /\ hook' = [hook EXCEPT ![w] = [in EXCEPT !.pc = "done", !.status = 500]]
             /\ jobs' = jobs
        ELSE IF sig = "invalid"
        THEN /\ type = "none" /\ s = 0
             /\ hook' = [hook EXCEPT ![w] = [in EXCEPT !.pc = "done", !.status = 400]]
             /\ jobs' = jobs
        ELSE /\ type # "none"
             /\ j = (IF s = 0 THEN NULL ELSE sessions[s].job_id)
             /\ IF j = NULL
                THEN /\ hook' = [hook EXCEPT ![w] =
                                   [in EXCEPT !.pc = "done", !.status = 400]]
                     /\ jobs' = jobs
                ELSE IF ~dbOk \/ ~jobs[j].exists
                THEN /\ hook' = [hook EXCEPT ![w] =
                                   [in EXCEPT !.pc = "done", !.status = 500]]
                     /\ jobs' = jobs
                ELSE /\ jobs' = [jobs EXCEPT ![j].status = "paid",
                                             ![j].paid_at = Now(w)]
                     /\ hook' = [hook EXCEPT ![w] =
                                   [in EXCEPT !.pc = "trigger",
                                              !.amountPaid = sessions[s].unit_amount]]
  /\ UNCHANGED <<profiles, receipts, sessions, req, amount, feeOut, accounts, conn>>

\* Variant: a missing job id is thrown to the outer catch instead of being
\* answered in place.
WebhookReceive_MissingJobThrows(w, sig, type, s, j, dbOk) ==
  /\ hook[w].pc = "idle"
  /\ s \in 0..Len(sessions)
  /\ LET in == [hook[w] EXCEPT !.sig = sig, !.type = type, !.sessionId = s,
                               !.jobId = j]
     IN IF sig = "missing"
        THEN /\ type = "none" /\ s = 0
             /\ hook' = [hook EXCEPT ![w] = [in EXCEPT !.pc = "done", !.status = 500]]
             /\ jobs' = jobs
        ELSE IF sig = "invalid"
        THEN /\ type = "none" /\ s = 0
             /\ hook' = [hook EXCEPT ![w] = [in EXCEPT !.pc = "done", !.status = 400]]
             /\ jobs' = jobs
        ELSE /\ type # "none"
             /\ j = (IF s = 0 THEN NULL ELSE sessions[s].job_id)
             /\ IF type # "checkout.session.completed"
                THEN /\ hook' = [hook EXCEPT ![w] =
                                   [in EXCEPT !.pc = "done", !.status = 200,
                                              !.received = TRUE]]
                     /\ jobs' = jobs
                ELSE IF j = NULL
                THEN /\ hook' = [hook EXCEPT ![w] =
                                   [in EXCEPT !.pc = "done", !.status = 500]]
                     /\ jobs' = jobs
                ELSE IF ~dbOk \/ ~jobs[j].exists
                THEN /\ hook' = [hook EXCEPT ![w] =
                                   [in EXCEPT !.pc = "done", !.status = 500]]
                     /\ jobs' = jobs
                ELSE /\ jobs' = [jobs EXCEPT ![j].status = "paid",
                                             ![j].paid_at = Now(w)]
                     /\ hook' = [hook EXCEPT ![w] =
                                   [in EXCEPT !.pc = "trigger",
                                              !.amountPaid = sessions[s].unit_amount]]
  /\ UNCHANGED <<profiles, receipts, sessions, req, amount, feeOut, accounts, conn>>

\* Variant: jobUpdateError is only logged and the receipt trigger runs
\* anyway.
WebhookReceive_TriggersOnFailure(w, sig, type, s, j, dbOk) ==
  /\ hook[w].pc = "idle"
  /\ s \in 0..Len(sessions)
  /\ LET in == [hook[w] EXCEPT !.sig = sig, !.type = type, !.sessionId = s,
                               !.jobId = j]
     IN IF sig = "missing"
        THEN /\ type = "none" /\ s = 0
             /\ hook' = [hook EXCEPT ![w] = [in EXCEPT !.pc = "done", !.status = 500]]
             /\ jobs' = jobs
        ELSE IF sig = "invalid"
        THEN /\ type = "none" /\ s = 0
             /\ hook' = [hook EXCEPT ![w] = [in EXCEPT !.pc = "done", !.status = 400]]
             /\ jobs' = jobs
        ELSE /\ type # "none"
             /\ j = (IF s = 0 THEN NULL ELSE sessions[s].job_id)
             /\ IF type # "checkout.session.completed"
                THEN /\ hook' = [hook EXCEPT ![w] =
                                   [in EXCEPT !.pc = "done", !.status = 200,
                                              !.received = TRUE]]
                     /\ jobs' = jobs
                ELSE IF j = NULL
                THEN /\ hook' = [hook EXCEPT ![w] =
                                   [in EXCEPT !.pc = "done", !.status = 400]]
                     /\ jobs' = jobs
                ELSE IF ~dbOk \/ ~jobs[j].exists
                THEN /\ hook' = [hook EXCEPT ![w] =
                                   [in EXCEPT !.pc = "trigger",
                                              !.amountPaid = sessions[s].unit_amount]]
                     /\ jobs' = jobs
                ELSE /\ jobs' = [jobs EXCEPT ![j].status = "paid",
                                             ![j].paid_at = Now(w)]
                     /\ hook' = [hook EXCEPT ![w] =
                                   [in EXCEPT !.pc = "trigger",
                                              !.amountPaid = sessions[s].unit_amount]]
  /\ UNCHANGED <<profiles, receipts, sessions, req, amount, feeOut, accounts, conn>>

\* Handler from the signature check to the mark-paid update.  sig is the
\* state of the stripe-signature header; a verified event is one the
\* processor sent: about one of its sessions (s > 0) or about a session
\* created outside this application, without job_id metadata (s = 0).  An
\* unverified payload is never parsed: only the job it names is kept (j).
\* Events of another type than checkout.session.completed are acknowledged
\* without being looked into.
WebhookReceive(w, sig, type, s, j, dbOk) ==
  /\ hook[w].pc = "idle"
  /\ s \in 0..Len(sessions)
  /\ LET in == [hook[w] EXCEPT !.sig = sig, !.type = type, !.sessionId = s,
                               !.jobId = j]
     IN IF sig = "missing"
        THEN /\ type = "none" /\ s = 0
             /\ hook' = [hook EXCEPT ![w] = [in EXCEPT !.pc = "done", !.status = 500]]
             /\ jobs' = jobs
        ELSE IF sig = "invalid"
        THEN /\ type = "none" /\ s = 0
             /\ hook' = [hook EXCEPT ![w] = [in EXCEPT !.pc = "done", !.status = 400]]
             /\ jobs' = jobs
        ELSE /\ type # "none"
             /\ j = (IF s = 0 THEN NULL ELSE sessions[s].job_id)
             /\ IF type # "checkout.session.completed"
                THEN /\ hook' = [hook EXCEPT ![w] =
                                   [in EXCEPT !.pc = "done", !.status = 200,
                                              !.received = TRUE]]
                     /\ jobs' = jobs
                ELSE IF j = NULL
                THEN /\ hook' = [hook EXCEPT ![w] =
                                   [in EXCEPT !.pc = "done", !.status = 400]]
                     /\ jobs' = jobs
                ELSE IF ~dbOk \/ ~jobs[j].exists
                THEN /\ hook' = [hook EXCEPT ![w] =
                                   [in EXCEPT !.pc = "done", !.status = 500]]
                     /\ jobs' = jobs
                ELSE /\ jobs' = [jobs EXCEPT ![j].status = "paid",
                                             ![j].paid_at = Now(w)]
                     /\ hook' = [hook EXCEPT ![w] =
                                   [in EXCEPT !.pc = "trigger",
                                              !.amountPaid = sessions[s].unit_amount]]
  /\ UNCHANGED <<profiles, receipts, sessions, req, amount, feeOut, accounts, conn>>

\* Variant: the receipt trigger is not wrapped in try/catch; a throwing
\* fetch reaches the outer catch.
WebhookTriggerFails_Rethrows(w) ==
  /\ hook[w].pc = "trigger"
  /\ hook' = [hook EXCEPT ![w] = Respond(w, 500, FALSE)]
  /\ UNCHANGED <<jobs, profiles, receipts, sessions, req, amount, feeOut, accounts, conn>>

\* fetch(.../generate-receipt) throws before the generator runs; the webhook
\* logs it and still acknowledges.
WebhookTriggerFails(w) ==
  /\ hook[w].pc = "trigger"
  /\ hook' = [hook EXCEPT ![w] = Respond(w, 200, TRUE)]
  /\ UNCHANGED <<jobs, profiles, receipts, sessions, req, amount, feeOut, accounts, conn>>

\* generate-receipt up to the insert: job lookup (an error makes the
\* generator answer 500, which the webhook only logs), the rendered
\* breakdown, and the receipts row under a fresh id; an insert error is
\* logged and the handler continues.
ReceiptGenerate(w, jobOk, insertOk) ==
  /\ hook[w].pc = "trigger"
  /\ IF ~jobOk \/ ~jobs[hook[w].jobId].exists
     THEN /\ hook' = [hook EXCEPT ![w] =
                        [Respond(w, 200, TRUE) EXCEPT !.receiptStatus = 500]]
          /\ receipts' = receipts
     ELSE LET receiptId == randomUUID(w)
              job == jobs[hook[w].jobId]
              html == generateReceiptHTML(job.price, hook[w].amountPaid)
              row == [id |-> receiptId, job_id |-> hook[w].jobId,
                      session_id |-> hook[w].sessionId,
                      amount_paid |-> hook[w].amountPaid,
                      base |-> html.base, fee |-> html.fee, total |-> html.total]
          IN /\ receipts' = IF insertOk THEN Append(receipts, row) ELSE receipts
             /\ hook' = [hook EXCEPT ![w].pc = "link", ![w].jobPrice = job.price,
                                     ![w].receiptId = receiptId]
  /\ UNCHANGED <<jobs, profiles, sessions, req, amount, feeOut, accounts, conn>>

\* A receipts row with this id is stored.
ReceiptExists(id) == \E i \in 1..Len(receipts) : receipts[i].id = id

\* generate-receipt: link the receipt id onto the job (the result of the
\* update is not looked at; jobs.receipt_id REFERENCES receipts(id), so the
\* database rejects an id without a stored row) and answer success; the
\* webhook then acknowledges the event.
ReceiptLink(w, dbOk) ==
  /\ hook[w].pc = "link"
  /\ jobs' = IF dbOk /\ ReceiptExists(hook[w].receiptId)
             THEN [jobs EXCEPT ![hook[w].jobId].receipt_id = hook[w].receiptId]
             ELSE jobs
  /\ hook' = [hook EXCEPT ![w] =
                [Respond(w, 200, TRUE) EXCEPT !.receiptStatus = 200]]
  /\ UNCHANGED <<profiles, receipts, sessions, req, amount, feeOut, accounts, conn>>

\* ------------------------------------- stripe-connect (initiate connection)
\* The authenticated user the calls are made for.
user == "u1"

\* Ids the processor hands out, in order of account creation.
AcctNames == <<"acct_A", "acct_B", "acct_C", "acct_D", "acct_E">>

\* A response of a connection function.
Answer(c, code, ok) == [conn[c] EXCEPT !.pc = "done", !.status = code, !.success = ok]

\* isConnected = account.details_submitted && account.charges_enabled
IsConnected(details_submitted, charges_enabled) ==
  details_submitted /\ charges_enabled

\* stripe-connect from the authorization check to the decision whether an
\* account has to be created: profile read, accounts.retrieve on a stored
\* account id (retrieveOk false: the call throws and the handler goes on),
\* reconciliation of the cached flag (its updateError is only logged) and
\* the already-connected short-circuit.
ConnectStart(c, kind, profOk, retrieveOk, details_submitted, charges_enabled, dbOk) ==
  /\ conn[c].pc = "idle"
  /\ LET profile == profiles[user]
         stored == IF profOk THEN profile.stripe_account_id ELSE NULL
         asked == stored # NULL /\ kind = "ok"
         isConnected == asked /\ retrieveOk
                        /\ IsConnected(details_submitted, charges_enabled)
         in == [conn[c] EXCEPT !.fn = "stripe-connect",
                               !.profileAccountId = stored]
         seen == [in EXCEPT !.retrieved = TRUE,
                            !.details_submitted = details_submitted,
                            !.charges_enabled = charges_enabled]
     IN /\ (~asked => (retrieveOk /\ ~details_submitted /\ ~charges_enabled))
        /\ (~retrieveOk => (~details_submitted /\ ~charges_enabled))
        /\ IF kind = "no_auth"
           THEN /\ conn' = [conn EXCEPT ![c] =
                              [Answer(c, 401, FALSE) EXCEPT !.fn = "stripe-connect"]]
                /\ profiles' = profiles
           ELSE IF kind = "no_key"
           THEN /\ conn' = [conn EXCEPT ![c] =
                              [in EXCEPT !.pc = "done", !.status = 500]]
                /\ profiles' = profiles
           ELSE IF asked /\ retrieveOk
           THEN /\ profiles' =
                     IF isConnected # profile.stripe_connected /\ dbOk
                     THEN [profiles EXCEPT ![user].stripe_connected = isConnected]
                     ELSE profiles
                /\ conn' = [conn EXCEPT ![c] =
                              IF isConnected
                              THEN [seen EXCEPT !.pc = "done", !.status = 200,
                                                !.success = TRUE,
                                                !.already_connected = TRUE]
                              ELSE [seen EXCEPT !.pc = "link",
                                                !.accountId = stored]]
           ELSE /\ profiles' = profiles
                /\ conn' = [conn EXCEPT ![c] =
                              [in EXCEPT !.pc = IF stored = NULL THEN "create"
                                                ELSE "link",
                                         !.accountId = stored]]
  /\ UNCHANGED <<jobs, receipts, sessions, req, hook, amount, feeOut, accounts>>

\* stripe-connect: if (!accountId) stripe.accounts.create; a throw reaches
\* the outer catch.
ConnectCreate(c, ok) ==
  /\ conn[c].pc = "create"
  /\ IF ok
     THEN LET account == [id |-> AcctNames[Len(accounts) + 1], email |-> user]
          IN /\ accounts' = Append(accounts, account)
             /\ conn' = [conn EXCEPT ![c].pc = "store",
                                     ![c].accountId = account.id,
                                     ![c].created = @ + 1]
     ELSE /\ accounts' = accounts
          /\ conn' = [conn EXCEPT ![c] = Answer(c, 500, FALSE)]
  /\ UNCHANGED <<jobs, profiles, receipts, sessions, req, hook, amount, feeOut>>

\* stripe-connect: the new account id written onto the profile; an
\* updateError is only logged.
ConnectStore(c, dbOk) ==
  /\ conn[c].pc = "store"
  /\ profiles' = IF dbOk
                 THEN [profiles EXCEPT ![user].stripe_account_id = conn[c].accountId]
                 ELSE profiles
  /\ conn' = [conn EXCEPT ![c].pc = "link"]
  /\ UNCHANGED <<jobs, receipts, sessions, req, hook, amount, feeOut, accounts>>

\* stripe-connect: stripe.accountLinks.create for accountId and the
\* {success, url, account_id} response.
ConnectLink(c, ok) ==
  /\ conn[c].pc = "link"
  /\ conn' = [conn EXCEPT ![c] =
                IF ok THEN [Answer(c, 200, TRUE) EXCEPT !.links = conn[c].links + 1]
                ELSE Answer(c, 500, FALSE)]
  /\ UNCHANGED <<jobs, profiles, receipts, sessions, req, hook, amount, feeOut,
                 accounts>>

\* ------------------------------------------------ create-stripe-onboarding
\* Handler up to stripe.accounts.create, which is called without reading
\* the profile.
OnboardingStart(c, kind, ok) ==
  /\ conn[c].pc = "idle"
  /\ LET in == [conn[c] EXCEPT !.fn = "create-stripe-onboarding"]
     IN IF kind = "no_key"
        THEN /\ conn' = [conn EXCEPT ![c] = [in EXCEPT !.pc = "done", !.status = 500]]
             /\ accounts' = accounts
        ELSE IF kind = "no_auth"
        THEN /\ conn' = [conn EXCEPT ![c] = [in EXCEPT !.pc = "done", !.status = 401]]
             /\ accounts' = accounts
        ELSE IF ~ok
        THEN /\ conn' = [conn EXCEPT ![c] = [in EXCEPT !.pc = "done", !.status = 500]]
             /\ accounts' = accounts
        ELSE LET account == [id |-> AcctNames[Len(accounts) + 1], email |-> user]
             IN /\ accounts' = Append(accounts, account)
                /\ conn' = [conn EXCEPT ![c] =
                              [in EXCEPT !.pc = "onboarding_link",
                                         !.accountId = account.id,
                                         !.created = conn[c].created + 1]]
  /\ UNCHANGED <<jobs, profiles, receipts, sessions, req, hook, amount, feeOut>>

\* create-stripe-onboarding: stripe.accountLinks.create for the new account.
OnboardingLink(c, ok) ==
  /\ conn[c].pc = "onboarding_link"
  /\ conn' = [conn EXCEPT ![c] =
                IF ok THEN [conn[c] EXCEPT !.pc = "onboarding_store",
                                           !.links = conn[c].links + 1]
                ELSE Answer(c, 500, FALSE)]
  /\ UNCHANGED <<jobs, profiles, receipts, sessions, req, hook, amount, feeOut,
                 accounts>>

\* create-stripe-onboarding: the account id written onto the profile (an
\* updateError is only logged) and the {url, account_id} response.
OnboardingStore(c, dbOk) ==
  /\ conn[c].pc = "onboarding_store"
  /\ profiles' = IF dbOk
                 THEN [profiles EXCEPT ![user].stripe_account_id = conn[c].accountId]
                 ELSE profiles
  /\ conn' = [conn EXCEPT ![c] = Answer(c, 200, FALSE)]
  /\ UNCHANGED <<jobs, receipts, sessions, req, hook, amount, feeOut, accounts>>

\* ------------------------------------------------------------ behaviours
\* Job creation and the steps of the checkout requests in rs.
CheckoutSteps(rs) ==
  \/ \E j \in JobIds, u \in Users, p \in FormPrices : CreateJob(j, u, p)
  \/ \E r \in rs, kind \in {"no_key", "bad_json", "no_job_id", "job"},
        j \in JobIds, jobOk \in BOOLEAN, profOk \in BOOLEAN,
        live \in {"none", "enabled", "disabled", "error"} :
          CheckoutStart(r, kind, j, jobOk, profOk, live)
  \/ \E r \in rs, ok \in BOOLEAN : CheckoutCreateSession(r, ok)
  \/ \E r \in rs, dbOk \in BOOLEAN : CheckoutPersist(r, dbOk)
  \/ \E r \in rs, ok \in BOOLEAN : CheckoutFallback(r, ok)

\* The steps of the webhook deliveries and of the receipt generation they
\* trigger.
WebhookSteps ==
  \/ \E w \in Hooks, sig \in {"missing", "invalid", "valid"},
        type \in {"none", "checkout.session.completed", "payment_intent.succeeded"},
        s \in 0..MaxReqs, j \in JobIds \cup {NULL}, dbOk \in BOOLEAN :
          WebhookReceive(w, sig, type, s, j, dbOk)
  \/ \E w \in Hooks : WebhookTriggerFails(w)
  \/ \E w \in Hooks, jobOk \in BOOLEAN, insertOk \in BOOLEAN :
        ReceiptGenerate(w, jobOk, insertOk)
  \/ \E w \in Hooks, dbOk \in BOOLEAN : ReceiptLink(w, dbOk)

\* The whole payment flow: link generation, payment, webhook, receipt.
Next == CheckoutSteps(PaidReqs) \/ WebhookSteps

Spec == Init /\ [][Next]_vars

\* The payment flow while users of the tenant edit and delete jobs.
JobEdits ==
  \/ \E j \in JobIds, u \in Users, p \in FormPrices : UpdateJobPrice(j, u, p)
  \/ \E j \in JobIds, u \in Users : DeleteJob(j, u)

NextEdits == Next \/ JobEdits

SpecEdits == Init /\ [][NextEdits]_vars

\* Checkout initiation alone, with concurrent requests.
NextCheckout == CheckoutSteps(Reqs)

SpecCheckout == Init /\ [][NextCheckout]_vars

\* ------------------------------------------------ connection manager alone
\* A user without a connected account calling the connection functions.
InitConnect ==
  /\ jobs = [j \in JobIds |-> NoJob]
  /\ profiles = [u \in Users |->
                   [company_id |-> "c1", stripe_account_id |-> NULL,
                    stripe_connected |-> FALSE]]
  /\ receipts = <<>>
  /\ sessions = <<>>
  /\ req = [r \in Reqs |-> IdleReq]
  /\ hook = [w \in Hooks |-> IdleHook]
  /\ amount = 0
  /\ feeOut = NotComputed
  /\ accounts = <<>>
  /\ conn = [c \in Calls |-> IdleCall]

NextConnect ==
  \/ \E c \in Calls, kind \in {"no_auth", "no_key", "ok"}, profOk \in BOOLEAN,
        retrieveOk \in BOOLEAN, details_submitted \in BOOLEAN,
        charges_enabled \in BOOLEAN, dbOk \in BOOLEAN :
          ConnectStart(c, kind, profOk, retrieveOk, details_submitted,
                       charges_enabled, dbOk)
  \/ \E c \in Calls, ok \in BOOLEAN : ConnectCreate(c, ok)
  \/ \E c \in Calls, dbOk \in BOOLEAN : ConnectStore(c, dbOk)
  \/ \E c \in Calls, ok \in BOOLEAN : ConnectLink(c, ok)
  \/ \E c \in Calls, kind \in {"no_auth", "no_key", "ok"}, ok \in BOOLEAN :
        OnboardingStart(c, kind, ok)
  \/ \E c \in Calls, ok \in BOOLEAN : OnboardingLink(c, ok)
  \/ \E c \in Calls, dbOk \in BOOLEAN : OnboardingStore(c, dbOk)

SpecConnect == InitConnect /\ [][NextConnect]_vars

\* ------------------------------------------------- fee calculator alone
\* The calculator applied to every cent amount up to MaxAmount.
InitFee ==
  /\ jobs = [j \in JobIds |-> NoJob]
  /\ profiles = [u \in Users |->
                   [company_id |-> "c1", stripe_account_id |-> NULL,
                    stripe_connected |-> FALSE]]
  /\ receipts = <<>>
  /\ sessions = <<>>
  /\ req = [r \in Reqs |-> IdleReq]
  /\ hook = [w \in Hooks |-> IdleHook]
  /\ amount \in 1..MaxAmount
  /\ feeOut = NotComputed
  /\ accounts = <<>>
  /\ conn = [c \in Calls |-> IdleCall]

ComputeFee ==
  /\ feeOut = NotComputed
  /\ feeOut' = calculatePlatformFee(amount)
  /\ UNCHANGED <<jobs, profiles, receipts, sessions, req, hook, amount,
                 accounts, conn>>

NextFee == ComputeFee

SpecFee == InitFee /\ [][NextFee]_vars


\* ============================================================== claims
\* Receipts stored for a processor session id.
ReceiptsFor(s) == {i \in 1..Len(receipts) : receipts[i].session_id = s}

\* Deliveries of the checkout-completed event of session s that were
\* verified and ran to their acknowledgement.
Delivered(s) ==
  {w \in Hooks : /\ hook[w].pc = "done"
                 /\ hook[w].sig = "valid"
                 /\ hook[w].type = "checkout.session.completed"
                 /\ hook[w].sessionId = s
                 /\ hook[w].received}

\* The request has taken its routing decision.
Routed(r) == req[r].pc \in {"create", "persist", "fallback"} \/ req[r].creates > 0

\* No profile of the tenant stores a connected account id.
NoConnectedAccount(c) ==
  \A u \in Users : profiles[u].company_id = c => profiles[u].stripe_account_id = NULL

\* C1: replaying the checkout-completed event of one session leaves at most
\* one receipt for that session id, and the job paid.
C1_OneReceiptPerSession ==
  \A s \in 1..Len(sessions) :
    /\ Cardinality(ReceiptsFor(s)) <= 1
    /\ Delivered(s) # {} => jobs[sessions[s].job_id].status = "paid"

\* C2: a webhook request whose signature is missing or does not verify is
\* answered with a 4xx status and changes no job and stores no receipt.
C2_UnsignedRejected4xx ==
  [][\A w \in Hooks :
       (hook[w].pc = "idle" /\ hook'[w].sig \in {"missing", "invalid"})
         => /\ hook'[w].status \in 400..499
            /\ hook'[w].pc = "done"
            /\ jobs' = jobs
            /\ receipts' = receipts]_vars

\* C3 as stated: after a failed connect-mode creation the response is always
\* success:true with a warning.
C3_FallbackAlwaysSucceeds ==
  \A r \in Reqs :
    (req[r].pc = "done" /\ req[r].stripeError = "connect_call_error")
      => /\ req[r].resp.success
         /\ req[r].resp.warning
         /\ req[r].resp.error # "connect_call_error"

\* C3 amended: after a failed connect-mode creation the handler makes one
\* more creation call with the split instructions stripped and in the
\* platform context; if it succeeds the response is success:true with a
\* warning and that session's url, if it fails the response is success:false
\* with the retry's error; the connect error is never the response's error.
C3_FallbackOutcome ==
  \A r \in Reqs :
    /\ (req[r].pc = "done" /\ req[r].useStripeConnect)
         => req[r].resp.error # "connect_call_error"
    /\ (req[r].pc = "done" /\ req[r].stripeError = "connect_call_error")
         => /\ req[r].creates = 2
            /\ req[r].resp.status = 200
            /\ IF req[r].resp.success
               THEN /\ req[r].resp.warning
                    /\ req[r].resp.url \in 1..Len(sessions)
                    /\ ~sessions[req[r].resp.url].has_split
                    /\ sessions[req[r].resp.url].stripeAccount = NULL
                    /\ sessions[req[r].resp.url].unit_amount = req[r].total
               ELSE req[r].resp.error = "fallback_call_error"

C3_Witness ==
  \E r \in Reqs :
    /\ req[r].pc = "done"
    /\ req[r].stripeError = "connect_call_error"
    /\ req[r].resp.success
    /\ req[r].resp.warning

\* C4 as stated: for every positive cent amount a, 0 <= fee(a) < a.
C4_FeeBelowAmount ==
  feeOut # NotComputed => (feeOut >= 0 /\ feeOut < amount)

\* C4 amended: for every positive cent amount a, fee(a) >= 0, and
\* fee(a) < a whenever a >= 33.
C4_FeeBelowAmountFrom33 ==
  feeOut # NotComputed => (feeOut >= 0 /\ (amount >= 33 => feeOut < amount))

C4_Witness == amount = 33 /\ feeOut = 32

\* C5 as stated: the boundary fees of the specification's list.
C5_BoundaryFeesAsStated ==
  feeOut # NotComputed =>
    /\ amount = 9999 => feeOut = 520
    /\ amount = 10000 => feeOut = 420
    /\ amount = 49999 => feeOut = 2180
    /\ amount = 50000 => feeOut = 1980
    /\ amount = 99999 => feeOut = 3130
    /\ amount = 100000 => feeOut = 2930
    /\ amount = 249999 => feeOut = 5050
    /\ amount = 250000 => feeOut = 3750

\* C5 amended: at the tier boundaries the calculator returns fee(9999)=520,
\* fee(10000)=420, fee(49999)=1980, fee(50000)=1480, fee(99999)=2930,
\* fee(100000)=1930, fee(249999)=4780, fee(250000)=3750.
C5_BoundaryFees ==
  feeOut # NotComputed =>
    /\ amount = 9999 => feeOut = 520
    /\ amount = 10000 => feeOut = 420
    /\ amount = 49999 => feeOut = 1980
    /\ amount = 50000 => feeOut = 1480
    /\ amount = 99999 => feeOut = 2930
    /\ amount = 100000 => feeOut = 1930
    /\ amount = 249999 => feeOut = 4780
    /\ amount = 250000 => feeOut = 3750

C5_Witness == amount = 49999 /\ feeOut = 1980

\* C6: the line item of every checkout session sent to the processor is
\* priced at base + fee(base) with base = round(price * 100); a job priced
\* 49.99 gives base 4999, fee 275 and a line item of 5274.
C6_LineItemAmount ==
  \A i \in 1..Len(sessions) :
    LET price == jobs[sessions[i].job_id].price
        base == MathRound(price, 10)
    IN /\ sessions[i].unit_amount = base + calculatePlatformFee(base)
       /\ price = 49990 => /\ sessions[i].base_price = 4999
                           /\ sessions[i].platform_fee = 275
                           /\ sessions[i].unit_amount = 5274

C6_Witness ==
  \E i \in 1..Len(sessions) :
    /\ jobs[sessions[i].job_id].price = 49990
    /\ NoConnectedAccount(jobs[sessions[i].job_id].company_id)
    /\ sessions[i].unit_amount = 5274

\* C7: a request whose base + fee is below 50 cents ends at once with
\* success:false, having made no account-status query and no session
\* creation, and leaves the job (its payment link included) as it was.
C7_BelowMinimumRejected ==
  [][\A r \in Reqs :
       (req'[r] # req[r] /\ req'[r].total \in 1..49)
         => /\ req'[r].pc = "done"
            /\ ~req'[r].resp.success
            /\ req'[r].resp.error # "none"
            /\ req'[r].acctQueries = 0
            /\ req'[r].creates = 0
            /\ sessions' = sessions
            /\ jobs' = jobs]_vars

C7_Witness ==
  \E r \in Reqs :
    /\ req[r].pc = "done"
    /\ req[r].base = 18
    /\ req[r].total = 49
    /\ ~req[r].resp.success

\* C8: the router selects platform routing when no profile of the tenant
\* has a connected account, and when the processor reports the account as
\* not charges-enabled although the cached flag says connected.
C8_PlatformRouting ==
  \A r \in Reqs :
    Routed(r) =>
      /\ NoConnectedAccount(jobs[req[r].jobId].company_id)
           => (~req[r].useStripeConnect /\ req[r].acctQueries = 0)
      /\ req[r].acctStatus = "disabled" => ~req[r].useStripeConnect
      /\ (~req[r].useStripeConnect /\ req[r].sessionId > 0)
           => /\ ~sessions[req[r].sessionId].has_split
              /\ sessions[req[r].sessionId].stripeAccount = NULL
              /\ sessions[req[r].sessionId].routing_method = "platform_only"

C8_Witness ==
  \E r \in Reqs :
    /\ Routed(r)
    /\ req[r].acctStatus = "disabled"
    /\ ~req[r].useStripeConnect
    /\ \E u \in Users : /\ profiles[u].stripe_connected
                        /\ profiles[u].stripe_account_id = req[r].connectedStripeAccountId

\* C9: every stored receipt prints a base, fee and total with
\* base + fee = total, the total being the amount the processor reports paid.
C9_ReceiptBreakdownAdds ==
  \A i \in 1..Len(receipts) :
    /\ receipts[i].base + receipts[i].fee = receipts[i].total
    /\ receipts[i].total = receipts[i].amount_paid
    /\ receipts[i].amount_paid = sessions[receipts[i].session_id].unit_amount

C9_Witness ==
  \E i \in 1..Len(receipts) :
    /\ receipts[i].base = 19
    /\ receipts[i].fee = 31
    /\ receipts[i].total = 50

\* C10: every failure of checkout initiation is answered with status 200 and
\* a body with success:false and an error; no request ends otherwise.
C10_FailuresAre200 ==
  \A r \in Reqs :
    req[r].pc = "done" =>
      /\ req[r].resp.status = 200
      /\ req[r].resp.success <=> req[r].resp.error = "none"
      /\ (req[r].jobId # NULL /\ req[r].creates = 0) => ~req[r].resp.success
      /\ req[r].jobId = NULL => ~req[r].resp.success

C10_Witness ==
  \E r \in Reqs :
    /\ req[r].pc = "done"
    /\ req[r].resp.error = "platform_call_error"
    /\ req[r].resp.status = 200
    /\ ~req[r].resp.success

\* C11: every success:true response of checkout initiation, direct or
\* fallback, carries the base/fee/total breakdown (pricing_info) and the
\* routing method (routing_info).
C11_SuccessCarriesBreakdown ==
  \A r \in Reqs :
    (req[r].pc = "done" /\ req[r].resp.success) => req[r].resp.pricing

\* C12: when a request completes with success:true and a url, and no
\* database write was rejected, the job's payment_url is the returned url at
\* the moment the request completes, on the direct and the fallback path.
C12_PaymentUrlPersisted ==
  [][\A r \in Reqs :
       (req[r].pc # "done" /\ req'[r].pc = "done" /\ req'[r].resp.success
          /\ ~req'[r].updateError)
         => jobs'[req'[r].jobId].payment_url = req'[r].resp.url]_vars

\* The delivery got past the mark-paid update of its job.
MarkedPaid(w) ==
  /\ hook[w].sig = "valid"
  /\ hook[w].type = "checkout.session.completed"
  /\ hook[w].amountPaid > 0

\* C13: a verified checkout-completed event whose mark-paid write succeeded
\* is answered {received:true} with status 200 and its job stays paid,
\* whether receipt generation succeeds, answers an error or throws.
C13_PaidAckIndependentOfReceipt ==
  \A w \in Hooks :
    MarkedPaid(w) =>
      /\ hook[w].pc \in {"trigger", "link", "done"}
      /\ jobs[hook[w].jobId].status = "paid"
      /\ hook[w].pc = "done" => (hook[w].status = 200 /\ hook[w].received)

C13_Witness ==
  \E w \in Hooks :
    /\ MarkedPaid(w)
    /\ hook[w].pc = "done"
    /\ hook[w].receiptId = 0
    /\ receipts = <<>>
    /\ hook[w].received
    /\ jobs[hook[w].jobId].status = "paid"

\* C14: a verified event of another type than checkout.session.completed
\* is acknowledged {received:true} at once; no job and no receipt changes
\* and no receipt generation is started.
C14_OtherEventsIgnored ==
  [][\A w \in Hooks :
       (hook[w].pc = "idle" /\ hook'[w].sig = "valid"
          /\ hook'[w].type # "checkout.session.completed")
         => /\ hook'[w].pc = "done"
            /\ hook'[w].status = 200
            /\ hook'[w].received
            /\ hook'[w].receiptId = 0
            /\ jobs' = jobs
            /\ receipts' = receipts]_vars

C14_Witness ==
  \E w \in Hooks :
    /\ hook[w].pc = "done"
    /\ hook[w].sig = "valid"
    /\ hook[w].type = "payment_intent.succeeded"
    /\ hook[w].sessionId > 0
    /\ hook[w].received
    /\ jobs[hook[w].jobId].status = "pending"

\* C15: a verified checkout-completed event without a job id in its
\* metadata is answered with a 4xx status; no job is updated and no receipt
\* generation is started.
C15_MissingJobIdRejected ==
  [][\A w \in Hooks :
       (hook[w].pc = "idle" /\ hook'[w].sig = "valid"
          /\ hook'[w].type = "checkout.session.completed"
          /\ hook'[w].jobId = NULL)
         => /\ hook'[w].pc = "done"
            /\ hook'[w].status \in 400..499
            /\ ~hook'[w].received
            /\ jobs' = jobs
            /\ receipts' = receipts]_vars

C15_Witness ==
  \E w \in Hooks :
    /\ hook[w].pc = "done"
    /\ hook[w].sig = "valid"
    /\ hook[w].type = "checkout.session.completed"
    /\ hook[w].jobId = NULL
    /\ hook[w].status = 400

\* C16: over any interleaving of initiate-connection calls of one user, at
\* most one connected account is created at the processor, and one is
\* created only while the profile stores no account id.
C16_OneAccountPerProfile ==
  [][Len(accounts') > Len(accounts)
       => /\ Len(accounts) = 0
          /\ profiles[user].stripe_account_id = NULL]_vars

\* C17: a stripe-connect call that finds a stored account id and is told by
\* the processor that the account can accept charges reports
\* already-connected and creates neither an account nor an onboarding link.
C17_AlreadyConnectedShortCircuit ==
  \A c \in Calls :
    (conn[c].profileAccountId # NULL /\ conn[c].retrieved /\ conn[c].charges_enabled)
      => /\ conn[c].pc = "done" => conn[c].already_connected
         /\ conn[c].created = 0
         /\ conn[c].links = 0

\* Rate (per mille) and fixed component (cents) of the tier table.
TierRate(a) ==
  IF a < 10000 THEN 49 ELSE IF a < 50000 THEN 39 ELSE IF a < 100000 THEN 29
  ELSE IF a < 250000 THEN 19 ELSE 15

TierFixed(a) == IF a < 250000 THEN 30 ELSE 0

\* C18: for every positive cent amount a the fee is the tier's fixed
\* component plus a * rate rounded to the nearest integer, half up: the
\* percentage part k is the integer with k - 1/2 <= a * rate / 1000 < k + 1/2.
C18_FeeAgreesWithTierTable ==
  feeOut # NotComputed =>
    LET k == feeOut - TierFixed(amount)
        x2000 == 2 * amount * TierRate(amount)
    IN /\ 2000 * k - 1000 <= x2000
       /\ x2000 < 2000 * k + 1000

C18_Witness == amount = 500 /\ feeOut = 55

\* The tenant has a profile storing a connected account id other than the
\* platform's.
HasConnectedAccountId(c) ==
  \E u \in Users : /\ profiles[u].company_id = c
                   /\ profiles[u].stripe_account_id
                        \notin {NULL, PLATFORM_STRIPE_ACCOUNT_ID}

\* C19: for a tenant storing a connected account id other than the
\* platform's, the router asks the processor for the live status whatever
\* the cached stripe_connected flag and the number of profiles, and selects
\* connect routing when the account is reported charges-enabled.
C19_RoutingIgnoresCachedFlag ==
  \A r \in Reqs :
    (Routed(r) /\ HasConnectedAccountId(jobs[req[r].jobId].company_id))
      => /\ req[r].acctQueries = 1
         /\ req[r].acctStatus = "enabled" => req[r].useStripeConnect

\* C20: when the account-status query fails the request goes on under
\* platform routing: no connect call and no fallback, the session is
\* created in the platform context without split, and the only error the
\* request can still end with is that of the platform creation call.
C20_StatusQueryFailureRoutesToPlatform ==
  \A r \in Reqs :
    req[r].acctStatus = "error" =>
      /\ ~req[r].useStripeConnect
      /\ req[r].pc \in {"create", "persist", "done"}
      /\ req[r].creates <= 1
      /\ req[r].creates = 0 => req[r].pc = "create"
      /\ req[r].sessionId > 0
           => /\ ~sessions[req[r].sessionId].has_split
              /\ sessions[req[r].sessionId].stripeAccount = NULL
              /\ sessions[req[r].sessionId].routing_method = "platform_only"
      /\ (req[r].pc = "done" /\ ~req[r].resp.success)
           => req[r].resp.error = "platform_call_error"

C20_Witness ==
  \E r \in Reqs :
    /\ req[r].acctStatus = "error"
    /\ req[r].pc = "done"
    /\ req[r].resp.success
    /\ sessions[req[r].sessionId].routing_method = "platform_only"
    /\ sessions[req[r].sessionId].stripeAccount = NULL

\* C21: no checkout session has the platform's own account id as transfer
\* destination or as connected-account context; a request whose tenant
\* stores the platform account id is routed to the platform without any
\* account-status query.
C21_PlatformIdNeverConnected ==
  /\ \A i \in 1..Len(sessions) :
       /\ sessions[i].destination # PLATFORM_STRIPE_ACCOUNT_ID
       /\ sessions[i].stripeAccount # PLATFORM_STRIPE_ACCOUNT_ID
  /\ \A r \in Reqs :
       (Routed(r) /\ req[r].connectedStripeAccountId = PLATFORM_STRIPE_ACCOUNT_ID)
         => /\ ~req[r].useStripeConnect
            /\ req[r].acctQueries = 0
            /\ req[r].acctStatus = "none"

C21_Witness ==
  \E r \in Reqs :
    /\ req[r].pc = "done"
    /\ req[r].connectedStripeAccountId = PLATFORM_STRIPE_ACCOUNT_ID
    /\ req[r].resp.success
    /\ sessions[req[r].sessionId].routing_method = "platform_only"
    /\ sessions[req[r].sessionId].destination = NULL

\* Account ids stored on the profiles of tenant c.
TenantAccountIds(c) ==
  {profiles[u].stripe_account_id : u \in {v \in Users : profiles[v].company_id = c}}

\* C22: the creation request carries split instructions exactly when
\* connect routing is in effect; then the application fee is the computed
\* platform fee, the destination is the tenant's connected account and the
\* call is made in that account's context; under platform routing (first
\* call or fallback) there is no split and the call is made in the platform
\* context.
C22_SplitIffConnectRouting ==
  \A r \in Reqs :
    /\ req[r].pc = "create" =>
         LET c == sessionConfig(r)
         IN /\ c.has_split <=> req[r].useStripeConnect
            /\ IF req[r].useStripeConnect
               THEN /\ c.application_fee_amount = calculatePlatformFee(req[r].base)
                    /\ c.application_fee_amount = c.unit_amount - c.base_price
                    /\ c.destination # NULL
                    /\ c.destination \in TenantAccountIds(jobs[req[r].jobId].company_id)
                    /\ c.stripeAccount = c.destination
               ELSE /\ c.application_fee_amount = 0
                    /\ c.destination = NULL
                    /\ c.stripeAccount = NULL
    /\ req[r].pc = "fallback" =>
         LET f == fallbackConfig(r)
         IN ~f.has_split /\ f.destination = NULL /\ f.stripeAccount = NULL
    /\ req[r].sessionId > 0 =>
         LET s == sessions[req[r].sessionId]
         IN /\ s.has_split <=> (req[r].useStripeConnect /\ req[r].stripeError = "none")
            /\ s.has_split <=> s.stripeAccount # NULL
            /\ s.has_split => /\ s.application_fee_amount = s.platform_fee
                              /\ s.destination = s.stripeAccount

C22_Witness ==
  \E i \in 1..Len(sessions) :
    /\ sessions[i].has_split
    /\ sessions[i].application_fee_amount = 275
    /\ sessions[i].destination = "acct_A"
    /\ sessions[i].stripeAccount = "acct_A"

\* C23: the routing method in a created session's metadata is the routing
\* used to create it: sessions created in the platform context, fallback
\* sessions included, carry platform_only, and sessions created in a
\* connected account's context carry the connect method.
C23_MetadataMatchesRouting ==
  \A i \in 1..Len(sessions) :
    /\ sessions[i].routing_method \in {"platform_only", "stripe_connect_updated_tiers"}
    /\ sessions[i].routing_method = "stripe_connect_updated_tiers"
         <=> sessions[i].stripeAccount # NULL

\* C24: a request calls checkout-session creation at most twice; a second
\* call is made only after a first call under connect routing failed; a
\* failed call under platform routing is not retried and the response is
\* success:false with that call's error.
C24_AtMostOneRetry ==
  \A r \in Reqs :
    /\ req[r].creates <= 2
    /\ req[r].pc = "fallback" => req[r].creates = 1
    /\ (req[r].creates = 2 \/ req[r].pc = "fallback")
         => /\ req[r].useStripeConnect
            /\ req[r].stripeError = "connect_call_error"
    /\ req[r].stripeError = "platform_call_error"
         => /\ ~req[r].useStripeConnect
            /\ req[r].creates = 1
            /\ req[r].pc = "done"
            /\ req[r].sessionId = 0
            /\ ~req[r].resp.success
            /\ req[r].resp.error = "platform_call_error"

C24_Witness ==
  \E r \in Reqs :
    /\ req[r].pc = "done"
    /\ ~req[r].useStripeConnect
    /\ req[r].creates = 1
    /\ req[r].stripeError = "platform_call_error"
    /\ req[r].resp.error = "platform_call_error"

\* C25: when the session was created and the write of its url onto the job
\* is rejected, the response is still success:true with that session's url
\* and id, and the job (its stored payment link included) is left as it was.
C25_UpdateErrorNotFatal ==
  [][\A r \in Reqs :
       (req[r].pc = "persist" /\ req'[r].updateError)
         => /\ req'[r].pc = "done"
            /\ req'[r].resp.status = 200
            /\ req'[r].resp.success
            /\ req'[r].resp.url = req[r].sessionId
            /\ req'[r].sessionId = req[r].sessionId
            /\ req[r].sessionId \in 1..Len(sessions)
            /\ jobs' = jobs]_vars

C25_Witness ==
  \E r \in Reqs :
    /\ req[r].pc = "done"
    /\ req[r].updateError
    /\ req[r].resp.success
    /\ req[r].resp.url = 2
    /\ jobs[req[r].jobId].payment_url = 1

\* C27: when the concurrent requests for one job have all completed with
\* success:true and no write was rejected, their urls are pairwise distinct,
\* the job's payment_url is the url returned by one of them, and the job's
\* status, paid_at and receipt_id are untouched.
C27_LastWriteWins ==
  \A j \in JobIds :
    (\A r \in Reqs : /\ req[r].pc = "done"
                     /\ req[r].jobId = j
                     /\ req[r].resp.success
                     /\ ~req[r].updateError)
      => /\ \A r1, r2 \in Reqs : r1 # r2 => req[r1].resp.url # req[r2].resp.url
         /\ jobs[j].payment_url \in {req[r].resp.url : r \in Reqs}
         /\ jobs[j].status = "pending"
         /\ jobs[j].paid_at = 0
         /\ jobs[j].receipt_id = 0

\* C29: a job's receipt_id, when set, is the id of a stored receipt whose
\* job_id is that job, and generate-receipt answers success only when its
\* receipt row is stored.
C29_ReceiptReferenceValid ==
  /\ \A j \in JobIds :
       jobs[j].receipt_id # 0
         => \E i \in 1..Len(receipts) : /\ receipts[i].id = jobs[j].receipt_id
                                        /\ receipts[i].job_id = j
  /\ \A w \in Hooks :
       hook[w].receiptStatus = 200 => ReceiptExists(hook[w].receiptId)

\* C30: once a job is paid, a later checkout-completed delivery for it
\* leaves its status paid and its paid_at as first written.
C30_PaidAtWrittenOnce ==
  [][\A j \in JobIds :
       jobs[j].status = "paid"
         => /\ jobs'[j].status = "paid"
            /\ jobs'[j].paid_at = jobs[j].paid_at]_vars

\* C28: the fee on every stored receipt is the platform fee charged for its
\* checkout session (the session's total minus the base amount the link was
\* generated with), whatever edits of the job's price happened in between.
C28_ReceiptFeeIsFeeCharged ==
  \A i \in 1..Len(receipts) :
    LET s == sessions[receipts[i].session_id]
    IN /\ receipts[i].fee = s.unit_amount - s.base_price
       /\ receipts[i].fee = s.platform_fee

\* C26: a verified checkout-completed delivery naming a job either marks the
\* job paid with a paid_at and only then goes on to the receipt trigger, or,
\* when the mark-paid write fails (a missing job included), is answered 5xx
\* without touching any job or receipt; receipts are written and the
\* generator answers only for deliveries that got past the mark-paid write.
C26_ReceiptOnlyAfterMarkPaid ==
  [][\A w \in Hooks :
       /\ (hook[w].pc = "idle" /\ hook'[w].sig = "valid"
             /\ hook'[w].type = "checkout.session.completed"
             /\ hook'[w].jobId # NULL)
            => IF hook'[w].pc = "trigger"
               THEN /\ jobs[hook'[w].jobId].exists
                    /\ jobs'[hook'[w].jobId].status = "paid"
                    /\ jobs'[hook'[w].jobId].paid_at = Now(w)
                    /\ jobs'[hook'[w].jobId].paid_at > 0
                    /\ receipts' = receipts
               ELSE /\ hook'[w].pc = "done"
                    /\ hook'[w].status \in 500..599
                    /\ ~hook'[w].received
                    /\ jobs' = jobs
                    /\ receipts' = receipts
       /\ (hook[w].pc = "idle" /\ hook'[w].sig = "valid"
             /\ hook'[w].type = "checkout.session.completed"
             /\ hook'[w].jobId # NULL
             /\ ~jobs[hook'[w].jobId].exists)
            => (hook'[w].pc = "done" /\ hook'[w].status \in 500..599)
       /\ (hook'[w].receiptStatus # hook[w].receiptStatus
             \/ hook'[w].receiptId # hook[w].receiptId)
            => (hook[w].pc \in {"trigger", "link"} /\ MarkedPaid(w))
       /\ hook'[w].pc \in {"trigger", "link"} => MarkedPaid(w)']_vars

C26_Witness ==
  \E w \in Hooks :
    /\ hook[w].pc = "done"
    /\ hook[w].sig = "valid"
    /\ hook[w].type = "checkout.session.completed"
    /\ hook[w].jobId # NULL
    /\ jobs[hook[w].jobId] = DeletedJob
    /\ hook[w].status = 500
    /\ hook[w].receiptStatus = 0
    /\ receipts = <<>>

====
